---- MODULE Spec2Model ----
(***************************************************************************)
(* svolang: scanner (lex), structurer (parse), evaluator (run) and the     *)
(* translate rewrite of src/src/main.rs.                                   *)
(*                                                                         *)
(* lex and parse are pure functions and are operators here, computed the   *)
(* way the code computes them (loop index, accumulators, recursion on the  *)
(* sub-slice).  run is a state machine: one action per executed            *)
(* instruction, with the call stack of run() kept explicitly.              *)
(* Indices are 0-based as in the source; At(s, i) reads s[i].              *)
(***************************************************************************)
EXTENDS Integers, Sequences, FiniteSets, TLC

VARIABLES
    pc,               \* stage about to execute: "translate","lex","parse","run","done","panicked"
    bf,               \* translate mode: the conventional-encoding text (Vec<char>)
    source,           \* the token-vocabulary source text (sequence of chars)
    opcodes,          \* result of lex
    program,          \* result of parse
    stack,            \* call stack of run(): frames [instructions, idx]
    tape,             \* Vec<u8>, 0-based through At
    data_pointer,     \* usize
    input,            \* bytes of stdin not yet consumed
    output,           \* bytes written to stdout
    err,              \* panic of the process, "none" while it runs
    err_pos,          \* position printed by a parse panic, -1 otherwise
    err_level,        \* recursion level of parse that panicked, -1 otherwise
    passes,           \* passes over loop bodies completed, counted where a
                      \* specification asks for it (not program state)
    overflow_checks   \* build profile: "on" (overflow panics), "off" (overflow wraps),
                      \* "unknown" until an operation of the run overflows

vars == <<pc, bf, source, opcodes, program, stack, tape, data_pointer,
          input, output, err, err_pos, err_level, passes, overflow_checks>>

At(s, i) == s[i + 1]

(***************************************************************************)
(* Bounds                                                                  *)
(***************************************************************************)
MaxSegs == 4          \* lex inputs: number of text segments concatenated
MaxOps == 5           \* parse inputs: length of the opcode sequence
MaxRunOps == 4        \* run inputs: length of the opcode sequence of a program
MaxOutput == 3        \* run: bytes the stdout pipe takes before a Write blocks
MaxBfLen == 3         \* translate inputs: length of the conventional text
MaxSrcToks == 3       \* execute mode inputs: tokens and other text in the source

(***************************************************************************)
(* Scanner                                                                 *)
(***************************************************************************)
\* Option<OpCode>: <<>> is None, <<op>> is Some(op)
LexOpForSwapped(o_count) ==
    CASE o_count = 1 -> <<"Increment">>
      [] o_count = 2 -> <<"Decrement">>
      [] o_count = 3 -> <<"LoopBegin">>
      [] o_count = 4 -> <<"LoopEnd">>
      [] o_count = 5 -> <<"IncrementPointer">>
      [] o_count = 6 -> <<"DecrementPointer">>
      [] o_count = 7 -> <<"Write">>
      [] o_count = 8 -> <<"Read">>
      [] OTHER -> <<>>

LexOpFor(o_count) ==
    CASE o_count = 1 -> <<"Increment">>
      [] o_count = 2 -> <<"Decrement">>
      [] o_count = 3 -> <<"LoopBegin">>
      [] o_count = 4 -> <<"LoopEnd">>
      [] o_count = 5 -> <<"DecrementPointer">>
      [] o_count = 6 -> <<"IncrementPointer">>
      [] o_count = 7 -> <<"Write">>
      [] o_count = 8 -> <<"Read">>
      [] OTHER -> <<>>

\* the inner while: counts the run of 'o' from j on
RECURSIVE OLoopCapped(_, _, _)
OLoopCapped(chars, o_count, j) ==
    IF j < Len(chars) /\ At(chars, j) = "o" /\ o_count < 8
    THEN OLoopCapped(chars, o_count + 1, j + 1)
    ELSE [o_count |-> o_count, j |-> j]

RECURSIVE OLoop(_, _, _)
OLoop(chars, o_count, j) ==
    IF j < Len(chars) /\ At(chars, j) = "o"
    THEN OLoop(chars, o_count + 1, j + 1)
    ELSE [o_count |-> o_count, j |-> j]

\* the outer while
RECURSIVE LexLoop(_, _, _)
LexLoop(chars, i, operations) ==
    IF ~(i < Len(chars)) THEN operations
    ELSE IF i + 1 < Len(chars) /\ At(chars, i) = "s" /\ At(chars, i + 1) = "v"
         THEN LET r == OLoop(chars, 0, i + 2)
              IN  LexLoop(chars, r.j, operations \o LexOpFor(r.o_count))
         ELSE LexLoop(chars, i + 1, operations)

lex(src) == LexLoop(src, 0, <<>>)

(***************************************************************************)
(* Scanner inputs: texts built from short segments, so that runs of 'o'    *)
(* of every length 0..11 occur after and away from the prefix.             *)
(***************************************************************************)
LexSegments ==
    { <<"s", "v">>, <<"s">>, <<"v">>, <<"x">>, <<"o">>,
      <<"o", "o", "o">>, <<"o", "o", "o", "o", "o">> }

RECURSIVE Concat(_)
Concat(ss) == IF ss = <<>> THEN <<>> ELSE Head(ss) \o Concat(Tail(ss))

SeqsUpTo(S, n) == UNION { [1..k -> S] : k \in 0..n }

LexSources == { Concat(ss) : ss \in SeqsUpTo(LexSegments, MaxSegs) }

\* the stages that have not run hold their empty values
NotParsed == program = <<>> /\ err = "none" /\ err_pos = -1 /\ err_level = -1
NotRunning ==
    /\ stack = <<>> /\ tape = <<>> /\ data_pointer = 0
    /\ input = <<>> /\ output = <<>>
    /\ passes = 0

InitLex ==
    /\ pc = "lex"
    /\ bf = <<>>
    /\ source \in LexSources
    /\ opcodes = <<>>
    /\ NotParsed /\ NotRunning
    /\ overflow_checks = "unknown"

\* main, line 166: let opcodes = lex(source)
LexAct ==
    /\ pc = "lex"
    /\ opcodes' = lex(source)
    /\ pc' = "parse"
    /\ UNCHANGED <<passes, bf, source, program, stack, tape, data_pointer, input,
                   output, err, err_pos, err_level, overflow_checks>>

NextLex == LexAct
SpecLex == InitLex /\ [][NextLex]_vars

(***************************************************************************)
(* Scanner claims                                                          *)
(***************************************************************************)
\* the count -> opcode table as the specification states it, in the
\* source's opcode names (MoveLeft = DecrementPointer, MoveRight =
\* IncrementPointer, Inc = Increment, Dec = Decrement)
StatedTable ==
    << "Increment", "Decrement", "LoopBegin", "LoopEnd",
       "DecrementPointer", "IncrementPointer", "Write", "Read" >>

\* 1-based position p holds the prefix 'sv'
SvAt(chars, p) == p + 1 <= Len(chars) /\ chars[p] = "s" /\ chars[p + 1] = "v"

\* length of the maximal run of 'o' right after the prefix at p
ORun(chars, p) ==
    CHOOSE k \in 0..Len(chars) :
        /\ \A q \in 1..k : p + 1 + q <= Len(chars) /\ chars[p + 1 + q] = "o"
        /\ ~(p + 2 + k <= Len(chars) /\ chars[p + 2 + k] = "o")

Recognized(chars) ==
    { p \in 1..Len(chars) : SvAt(chars, p) /\ ORun(chars, p) \in 1..8 }

NthOf(T, n) == CHOOSE p \in T : Cardinality({ q \in T : q < p }) = n - 1

StatedOpcodes(chars) ==
    LET T == Recognized(chars)
    IN  [ n \in 1..Cardinality(T) |-> StatedTable[ORun(chars, NthOf(T, n))] ]

\* C1: lex returns, in source order, exactly one opcode per occurrence of
\* 'sv' followed by a maximal run of 1..8 'o', chosen by the run length
\* (1=Inc 2=Dec 3=LoopBegin 4=LoopEnd 5=MoveLeft 6=MoveRight 7=Write 8=Read),
\* and nothing else.
C1_LexTokens == pc = "parse" => opcodes = StatedOpcodes(source)

\* two different tokens, with text between and around them
C1_Witness ==
    /\ pc = "parse"
    /\ Len(opcodes) = 2 /\ opcodes[1] # opcodes[2]
    /\ Len(source) > 7

\* C2: a text with no 'sv' followed by 1..8 'o' lexes to the empty opcode
\* sequence without error; a run of 9 or more 'o' is skipped whole.
C2_LexSkips ==
    (pc = "parse" /\ Recognized(source) = {}) => (opcodes = <<>> /\ err = "none")

\* 'sv' followed by at least nine 'o' was scanned and gave nothing
C2_Witness ==
    /\ pc = "parse"
    /\ \E p \in 1..Len(source) : SvAt(source, p) /\ ORun(source, p) >= 9
    /\ opcodes = <<>>

(***************************************************************************)
(* Structurer                                                              *)
(***************************************************************************)
OpCode ==
    { "IncrementPointer", "DecrementPointer", "Increment", "Decrement",
      "Write", "Read", "LoopBegin", "LoopEnd" }

\* Instruction: every variant is a record of the same shape; body is
\* empty except for Loop
Instr(t) == [tag |-> t, body |-> <<>>]
Loop(b) == [tag |-> "Loop", body |-> b]

Parsed(prog) == [ok |-> TRUE, program |-> prog, err |-> "none", pos |-> -1, level |-> -1]
Panic(e, p, l) == [ok |-> FALSE, program |-> <<>>, err |-> e, pos |-> p, level |-> l]

\* the slice opcodes[a..b] (0-based, b exclusive)
SliceFromBegin(s, a, b) == SubSeq(s, a, b)

SliceThroughEnd(s, a, b) == SubSeq(s, a + 1, b + 1)

Slice(s, a, b) == SubSeq(s, a + 1, b)

\* lines 98-100: a LoopBegin met at depth > 0 leaves loop_start alone
NestedStartLatest(loop_start, i) == i

NestedStart(loop_start, i) == loop_start

\* line 89: the panic of a LoopEnd met at depth 0
UnmatchedOneBased(i, level) == Panic("UnmatchedLoopEnd", i + 1, level)

Unmatched(i, level) == Panic("UnmatchedLoopEnd", i, level)

\* line 115: the test after the pass
StillOpenNested(loop_stack) == loop_stack > 1

StillOpen(loop_stack) == loop_stack # 0

\* the for loop of parse from index i on, and the check after it; level is
\* the depth of the recursion, kept to tell which invocation panicked
RECURSIVE ParseLoop(_, _, _, _, _, _)
ParseLoop(ops, i, prog, loop_stack, loop_start, level) ==
    IF i >= Len(ops)
    THEN IF StillOpen(loop_stack)
         THEN Panic("UnterminatedLoop", loop_start, level)
         ELSE Parsed(prog)
    ELSE LET op == At(ops, i) IN
         IF loop_stack = 0
         THEN CASE op = "LoopBegin" ->
                     ParseLoop(ops, i + 1, prog, loop_stack + 1, i, level)
                [] op = "LoopEnd" ->
                     Unmatched(i, level)
                [] OTHER ->
                     ParseLoop(ops, i + 1, Append(prog, Instr(op)), loop_stack, loop_start, level)
         ELSE CASE op = "LoopBegin" ->
                     ParseLoop(ops, i + 1, prog, loop_stack + 1,
                               NestedStart(loop_start, i), level)
                [] op = "LoopEnd" ->
                     IF loop_stack - 1 = 0
                     THEN LET sub == ParseLoop(Slice(ops, loop_start + 1, i),
                                               0, <<>>, 0, 0, level + 1)
                          IN  IF sub.ok
                              THEN ParseLoop(ops, i + 1, Append(prog, Loop(sub.program)),
                                             0, loop_start, level)
                              ELSE sub
                     ELSE ParseLoop(ops, i + 1, prog, loop_stack - 1, loop_start, level)
                [] OTHER ->
                     ParseLoop(ops, i + 1, prog, loop_stack, loop_start, level)

parse(ops) == ParseLoop(ops, 0, <<>>, 0, 0, 0)

\* a panic of parse ends the process; otherwise main goes on to run
AfterParseAlways(ok) == "run"

AfterParse(ok) == IF ok THEN "run" ELSE "panicked"

InitParse ==
    /\ pc = "parse"
    /\ bf = <<>> /\ source = <<>>
    /\ opcodes \in SeqsUpTo(OpCode, MaxOps)
    /\ NotParsed /\ NotRunning
    /\ overflow_checks = "unknown"

\* main, line 168: let program = parse(opcodes); a panic ends the process
ParseAct ==
    /\ pc = "parse"
    /\ LET r == parse(opcodes) IN
         /\ program' = r.program
         /\ err' = r.err
         /\ err_pos' = r.pos
         /\ err_level' = r.level
         /\ pc' = AfterParse(r.ok)
    /\ UNCHANGED <<passes, bf, source, opcodes, stack, tape, data_pointer, input,
                   output, overflow_checks>>

NextParse == ParseAct
SpecParse == InitParse /\ [][NextParse]_vars

(***************************************************************************)
(* Structurer claims                                                       *)
(***************************************************************************)
Count(ops, n, o) == Cardinality({ q \in 1..n : ops[q] = o })
\* nesting depth after the first n opcodes
Depth(ops, n) == Count(ops, n, "LoopBegin") - Count(ops, n, "LoopEnd")

\* 1-based positions of the LoopEnd with no open LoopBegin
UnmatchedEnds(ops) ==
    { p \in 1..Len(ops) :
        /\ ops[p] = "LoopEnd"
        /\ \A a \in 1..p : Depth(ops, p) - Depth(ops, a - 1) < 0 }
\* 1-based positions of the LoopBegin never closed
UnmatchedBegins(ops) ==
    { p \in 1..Len(ops) :
        /\ ops[p] = "LoopBegin"
        /\ \A b \in p..Len(ops) : Depth(ops, b) - Depth(ops, p - 1) > 0 }

\* lengths of the prefixes with more LoopEnd than LoopBegin
NegativePrefixes(ops) == { n \in 1..Len(ops) : Depth(ops, n) < 0 }

Balanced(ops) == UnmatchedEnds(ops) = {} /\ UnmatchedBegins(ops) = {}

Min(S) == CHOOSE x \in S : \A y \in S : x <= y

RECURSIVE Flatten(_)
Flatten(prog) ==
    IF prog = <<>> THEN <<>>
    ELSE LET h == Head(prog) IN
         (IF h.tag = "Loop"
          THEN <<"LoopBegin">> \o Flatten(h.body) \o <<"LoopEnd">>
          ELSE <<h.tag>>) \o Flatten(Tail(prog))

ParseDone == pc \in {"run", "panicked"}

\* C3: a balanced, properly nested opcode sequence parses, and flattening
\* the tree depth-first gives back the opcode sequence.
C3_ParseRoundTrip ==
    (ParseDone /\ Balanced(opcodes)) =>
        (pc = "run" /\ err = "none" /\ Flatten(program) = opcodes)

\* a loop nested in a loop, with an instruction inside
C3_Witness ==
    /\ pc = "run"
    /\ \E n \in 1..Len(program) :
          /\ program[n].tag = "Loop"
          /\ \E m \in 1..Len(program[n].body) :
                /\ program[n].body[m].tag = "Loop"
                /\ program[n].body[m].body # <<>>

\* C4: with an unmatched LoopEnd, parse fails with UnmatchedLoopEnd at the
\* index (in the top-level sequence) of the first such LoopEnd.
C4_UnmatchedLoopEnd ==
    (ParseDone /\ NegativePrefixes(opcodes) # {}) =>
        /\ pc = "panicked"
        /\ err = "UnmatchedLoopEnd"
        /\ err_pos = Min(NegativePrefixes(opcodes)) - 1

\* the unmatched LoopEnd comes after a closed loop, not at index 0
C4_Witness ==
    /\ pc = "panicked" /\ err = "UnmatchedLoopEnd"
    /\ err_pos >= 3
    /\ \E a \in 1..err_pos : opcodes[a] = "LoopBegin"

\* C5 as stated: with an unmatched LoopBegin, parse fails with
\* UnterminatedLoop.
C5_Stated ==
    (ParseDone /\ UnmatchedBegins(opcodes) # {}) =>
        (pc = "panicked" /\ err = "UnterminatedLoop")

\* C5: with an unmatched LoopBegin and no unmatched LoopEnd, parse fails
\* with UnterminatedLoop.
C5_UnterminatedLoop ==
    (ParseDone /\ UnmatchedBegins(opcodes) # {} /\ UnmatchedEnds(opcodes) = {}) =>
        (pc = "panicked" /\ err = "UnterminatedLoop")

\* the open LoopBegin follows a closed loop and holds a closed loop
C5_Witness ==
    /\ pc = "panicked" /\ err = "UnterminatedLoop"
    /\ UnmatchedBegins(opcodes) # {}
    /\ \E p \in 1..Len(opcodes) : opcodes[p] = "LoopEnd"

(***************************************************************************)
(* Evaluator                                                               *)
(***************************************************************************)
TapeLen == 1024            \* main, line 170
DataPointerInit == 512     \* main, line 171
\* usize is modelled 16 bits wide: wide enough that only a wrap below 0
\* leaves the tape, as with the 32 and 64 bit widths
UsizeBits == 16
UsizeMax == 2 ^ UsizeBits - 1
U8Max == 255

\* print!("{}", b as char): the char U+00b, written as UTF-8
Utf8(b) == IF b < 128 THEN <<b>> ELSE <<192 + (b \div 64), 128 + (b % 64)>>

\* the while condition of a Loop, on the cell read
LoopCondAboveOne(cell) == cell > 1

LoopCond(cell) == cell # 0

InBounds(dp) == dp < Len(tape)

\* line 131, on a cell that does not underflow
CellDecAsInc(cell) == cell + 1

CellDec(cell) == cell - 1

\* The profile the binary was built with is one fact for the whole run; it
\* shows at the first overflow, and every later overflow behaves the same.
Profiles == IF overflow_checks = "unknown" THEN {"on", "off"} ELSE {overflow_checks}

Top == stack[Len(stack)]
Cur == At(Top.instructions, Top.idx)
Executing(t) ==
    /\ pc = "run"
    /\ stack # <<>>
    /\ Top.idx < Len(Top.instructions)
    /\ Cur.tag = t

\* the for loop of the running frame moves to its next instruction
AdvanceOrBreak ==
    stack' = [stack EXCEPT ![Len(stack)].idx =
                 IF Len(stack) > 1 /\ InBounds(data_pointer') /\ At(tape', data_pointer') = 0
                 THEN Len(stack[Len(stack)].instructions)
                 ELSE @ + 1]

Advance == stack' = [stack EXCEPT ![Len(stack)].idx = @ + 1]

\* line 138: tape[*data_pointer] = input[0]
StoredAtStart(t, dp, b) == [t EXCEPT ![1] = b]

Stored(t, dp, b) == [t EXCEPT ![dp + 1] = b]

\* a panic unwinds the process; nothing else runs
PanicWith(e) ==
    /\ pc' = "panicked"
    /\ err' = e
    /\ UNCHANGED stack

Continue == UNCHANGED <<pc, err>>

\* line 128: *data_pointer += 1
IncrementPointer ==
    /\ Executing("IncrementPointer")
    /\ UNCHANGED <<passes, bf, source, opcodes, program, tape, input, output,
                   err_pos, err_level>>
    /\ IF data_pointer = UsizeMax
       THEN \E p \in Profiles :
               /\ overflow_checks' = p
               /\ IF p = "on"
                  THEN PanicWith("AddOverflow") /\ UNCHANGED data_pointer
                  ELSE data_pointer' = 0 /\ Advance /\ Continue
       ELSE /\ data_pointer' = data_pointer + 1 /\ Advance /\ Continue
            /\ UNCHANGED overflow_checks

\* line 129: *data_pointer -= 1
DecrementPointer ==
    /\ Executing("DecrementPointer")
    /\ UNCHANGED <<passes, bf, source, opcodes, program, tape, input, output,
                   err_pos, err_level>>
    /\ IF data_pointer = 0
       THEN \E p \in Profiles :
               /\ overflow_checks' = p
               /\ IF p = "on"
                  THEN PanicWith("SubOverflow") /\ UNCHANGED data_pointer
                  ELSE data_pointer' = UsizeMax /\ Advance /\ Continue
       ELSE /\ data_pointer' = data_pointer - 1 /\ Advance /\ Continue
            /\ UNCHANGED overflow_checks

\* line 130: tape[*data_pointer] += 1
Increment ==
    /\ Executing("Increment")
    /\ UNCHANGED <<passes, bf, source, opcodes, program, data_pointer, input, output,
                   err_pos, err_level>>
    /\ IF ~InBounds(data_pointer)
       THEN PanicWith("IndexOutOfBounds") /\ UNCHANGED <<tape, overflow_checks>>
       ELSE IF At(tape, data_pointer) = U8Max
            THEN \E p \in Profiles :
                    /\ overflow_checks' = p
                    /\ IF p = "on"
                       THEN PanicWith("AddOverflow") /\ UNCHANGED tape
                       ELSE /\ tape' = [tape EXCEPT ![data_pointer + 1] = 0]
                            /\ Advance /\ Continue
            ELSE /\ tape' = [tape EXCEPT ![data_pointer + 1] = @ + 1]
                 /\ Advance /\ Continue
                 /\ UNCHANGED overflow_checks

\* line 131: tape[*data_pointer] -= 1
Decrement ==
    /\ Executing("Decrement")
    /\ UNCHANGED <<passes, bf, source, opcodes, program, data_pointer, input, output,
                   err_pos, err_level>>
    /\ IF ~InBounds(data_pointer)
       THEN PanicWith("IndexOutOfBounds") /\ UNCHANGED <<tape, overflow_checks>>
       ELSE IF At(tape, data_pointer) = 0
            THEN \E p \in Profiles :
                    /\ overflow_checks' = p
                    /\ IF p = "on"
                       THEN PanicWith("SubOverflow") /\ UNCHANGED tape
                       ELSE /\ tape' = [tape EXCEPT ![data_pointer + 1] = U8Max]
                            /\ Advance /\ Continue
            ELSE /\ tape' = [tape EXCEPT ![data_pointer + 1] = CellDec(@)]
                 /\ Advance /\ Continue
                 /\ UNCHANGED overflow_checks

\* line 132: print!("{}", tape[*data_pointer] as char)
Write ==
    /\ Executing("Write")
    /\ UNCHANGED <<passes, bf, source, opcodes, program, tape, data_pointer, input,
                   err_pos, err_level, overflow_checks>>
    /\ Len(output) < MaxOutput
    /\ IF ~InBounds(data_pointer)
       THEN PanicWith("IndexOutOfBounds") /\ UNCHANGED output
       ELSE /\ output' = output \o Utf8(At(tape, data_pointer))
            /\ Advance /\ Continue

\* lines 133-139: read_exact of one byte, then the store
Read ==
    /\ Executing("Read")
    /\ UNCHANGED <<passes, bf, source, opcodes, program, data_pointer, output,
                   err_pos, err_level, overflow_checks>>
    /\ IF input = <<>>
       THEN PanicWith("InputExhausted") /\ UNCHANGED <<input, tape>>
       ELSE /\ input' = Tail(input)
            /\ IF ~InBounds(data_pointer)
               THEN PanicWith("IndexOutOfBounds") /\ UNCHANGED tape
               ELSE /\ tape' = Stored(tape, data_pointer, Head(input))
                    /\ Advance /\ Continue

\* lines 140-144: one evaluation of the while condition; a true condition
\* calls run on the body, a false one ends the Loop instruction
LoopTest ==
    /\ Executing("Loop")
    /\ UNCHANGED <<passes, bf, source, opcodes, program, tape, data_pointer, input,
                   output, err_pos, err_level, overflow_checks>>
    /\ IF ~InBounds(data_pointer)
       THEN PanicWith("IndexOutOfBounds")
       ELSE IF LoopCond(At(tape, data_pointer))
            THEN /\ stack' = Append(stack, [instructions |-> Cur.body, idx |-> 0])
                 /\ Continue
            ELSE Advance /\ Continue

\* line 146: the for loop of a nested run is over; back in the while
ReturnStep ==
    /\ pc = "run"
    /\ Len(stack) > 1
    /\ Top.idx >= Len(Top.instructions)
    /\ stack' = SubSeq(stack, 1, Len(stack) - 1)
    /\ UNCHANGED <<pc, bf, source, opcodes, program, tape, data_pointer,
                   input, output, err, err_pos, err_level, overflow_checks>>

Return == ReturnStep /\ UNCHANGED passes

\* the same step, with the pass counted
ReturnCounted == ReturnStep /\ passes' = passes + 1

\* line 173: the top-level run returns to main
Finish ==
    /\ pc = "run"
    /\ Len(stack) = 1
    /\ Top.idx >= Len(Top.instructions)
    /\ stack' = <<>>
    /\ pc' = "done"
    /\ UNCHANGED <<passes, bf, source, opcodes, program, tape, data_pointer,
                   input, output, err, err_pos, err_level, overflow_checks>>

(***************************************************************************)
(* Evaluator inputs: every program of at most MaxRunOps opcodes, and the   *)
(* straight runs of moves that reach either end of the tape, alone or      *)
(* followed by one instruction, and the loops with a two-instruction body. *)
(***************************************************************************)
SimpleInstr ==
    { Instr(t) : t \in { "IncrementPointer", "DecrementPointer", "Increment",
                         "Decrement", "Write", "Read" } }

Repeat(x, n) == [k \in 1..n |-> x]

ShortPrograms ==
    { parse(ops).program :
        ops \in { o \in SeqsUpTo(OpCode, MaxRunOps) : parse(o).ok } }

LongPrograms ==
    { m \o t :
        m \in { Repeat(Instr("IncrementPointer"), TapeLen - DataPointerInit),
                Repeat(Instr("DecrementPointer"), DataPointerInit + 1) },
        t \in { <<>> } \cup { <<x>> : x \in SimpleInstr } }

\* a loop with a body of two instructions, after one instruction
TwoStepLoops ==
    { <<a, Loop(<<b, c>>)>> : a \in SimpleInstr, b \in SimpleInstr, c \in SimpleInstr }

\* contents of stdin: empty, one byte, and two bytes in a known order
StdinContents == { <<>>, <<0>>, <<U8Max>>, <<U8Max, 0>> }

RECURSIVE HasRead(_)
HasRead(prog) ==
    \E n \in 1..Len(prog) : prog[n].tag = "Read" \/ HasRead(prog[n].body)

\* stdin is drawn only for the programs that can read it
InputsFor(prog) ==
    IF HasRead(prog) THEN StdinContents ELSE { <<>> }

\* main, lines 170-173
Init ==
    /\ pc = "run"
    /\ bf = <<>> /\ source = <<>> /\ opcodes = <<>>
    /\ program \in ShortPrograms \cup TwoStepLoops \cup LongPrograms
    /\ err = "none" /\ err_pos = -1 /\ err_level = -1
    /\ stack = <<[instructions |-> program, idx |-> 0]>>
    /\ tape = Repeat(0, TapeLen)
    /\ data_pointer = DataPointerInit
    /\ input \in InputsFor(program)
    /\ output = <<>>
    /\ passes = 0
    /\ overflow_checks = "unknown"

Next ==
    \/ IncrementPointer
    \/ DecrementPointer
    \/ Increment
    \/ Decrement
    \/ Write
    \/ Read
    \/ LoopTest
    \/ Return
    \/ Finish

Spec == Init /\ [][Next]_vars

(***************************************************************************)
(* Evaluator claims                                                        *)
(***************************************************************************)
\* C6 as stated: while execution has not failed, DataPointer is inside
\* the tape; a move that would leave it fails at the move itself.
C6_Stated == pc # "panicked" => (0 <= data_pointer /\ data_pointer < Len(tape))

\* C7 as stated: Inc and Dec on a cell holding v never fail and leave
\* (v+1) mod 256 and (v-1) mod 256.
C7_Stated ==
    [][ (InBounds(data_pointer) /\ (Executing("Increment") \/ Executing("Decrement"))) =>
          /\ err' = "none"
          /\ At(tape', data_pointer) =
                (At(tape, data_pointer) + (IF Executing("Increment") THEN 1 ELSE U8Max))
                    % (U8Max + 1) ]_vars

\* C8: a Loop tests Tape[DataPointer] # 0 before every pass: a zero cell
\* skips the body and changes nothing, a body is entered only from a test
\* on a nonzero cell, the test is taken again only when the body has run to
\* its end, and when the Loop completes the cell under the pointer is 0.
C8_LoopSemantics ==
    [][ /\ (Executing("Loop") /\ InBounds(data_pointer) /\ At(tape, data_pointer) = 0) =>
              /\ stack' = [stack EXCEPT ![Len(stack)].idx = @ + 1]
              /\ UNCHANGED <<pc, err, tape, data_pointer, input, output>>
        /\ Len(stack') > Len(stack) =>
              /\ Executing("Loop")
              /\ InBounds(data_pointer) /\ At(tape, data_pointer) # 0
              /\ stack' = Append(stack, [instructions |-> Cur.body, idx |-> 0])
              /\ UNCHANGED <<tape, data_pointer, input, output>>
        /\ (Len(stack') < Len(stack) /\ pc' = "run") =>
              /\ Top.idx = Len(Top.instructions)
              /\ stack' = SubSeq(stack, 1, Len(stack) - 1)
              /\ At(stack[Len(stack) - 1].instructions, stack[Len(stack) - 1].idx)
                    = Loop(Top.instructions)
        /\ (Executing("Loop") /\ pc' = "run" /\ Len(stack') = Len(stack)) =>
              /\ InBounds(data_pointer') /\ At(tape', data_pointer') = 0
      ]_vars

\* a loop with a body ran it, moved the pointer and completed
C8_Witness ==
    /\ pc = "done"
    /\ \E n \in 1..Len(program) : program[n].tag = "Loop" /\ program[n].body # <<>>
    /\ \A n \in 1..Len(program) :
          program[n].tag \notin {"IncrementPointer", "DecrementPointer"}
    /\ data_pointer # DataPointerInit
    /\ InBounds(data_pointer) /\ At(tape, data_pointer) = 0

\* C10 as stated: a Read with a byte left takes exactly that byte and
\* stores it at Tape[DataPointer]; a Read with none left fails with
\* InputExhausted and changes neither the tape nor DataPointer.
C10_Stated ==
    [][ Executing("Read") =>
          IF input # <<>>
          THEN /\ input' = Tail(input)
               /\ InBounds(data_pointer)
               /\ tape' = [tape EXCEPT ![data_pointer + 1] = Head(input)]
               /\ err' = "none"
          ELSE /\ pc' = "panicked" /\ err' = "InputExhausted"
               /\ UNCHANGED <<tape, data_pointer>> ]_vars

(***************************************************************************)
(* Translator                                                              *)
(***************************************************************************)
\* str::replace for a one-character pattern
RECURSIVE Replace(_, _, _)
Replace(chars, from, to) ==
    IF chars = <<>> THEN <<>>
    ELSE (IF Head(chars) = from THEN to ELSE <<Head(chars)>>)
            \o Replace(Tail(chars), from, to)

Token(n) == <<"s", "v">> \o Repeat("o", n)

\* main, lines 183-191
translate(src) ==
    Replace(Replace(Replace(Replace(Replace(Replace(Replace(Replace(src,
        "+", Token(1)), "-", Token(2)), "[", Token(3)), "]", Token(4)),
        "<", Token(5)), ">", Token(6)), ".", Token(7)), ",", Token(8))

BfSymbols == {"+", "-", "[", "]", "<", ">", ".", ","}
BfChars == BfSymbols \cup {"s", "v", "o", "x", " "}

InitTranslate ==
    /\ pc = "translate"
    /\ bf \in SeqsUpTo(BfChars, MaxBfLen)
    /\ source = <<>> /\ opcodes = <<>>
    /\ NotParsed /\ NotRunning
    /\ overflow_checks = "unknown"

\* translate mode writes the rewritten text; it is then the source of a run
TranslateAct ==
    /\ pc = "translate"
    /\ source' = translate(bf)
    /\ pc' = "lex"
    /\ UNCHANGED <<passes, bf, opcodes, program, stack, tape, data_pointer, input,
                   output, err, err_pos, err_level, overflow_checks>>

NextTranslate == TranslateAct \/ LexAct \/ ParseAct
SpecTranslate == InitTranslate /\ [][NextTranslate]_vars

\* the opcode a conventional symbol stands for
SymbolOp(c) ==
    CASE c = "+" -> "Increment"
      [] c = "-" -> "Decrement"
      [] c = "[" -> "LoopBegin"
      [] c = "]" -> "LoopEnd"
      [] c = "<" -> "DecrementPointer"
      [] c = ">" -> "IncrementPointer"
      [] c = "." -> "Write"
      [] c = "," -> "Read"

\* the symbols of a text read one symbol per operation
RECURSIVE SymbolSeq(_)
SymbolSeq(chars) ==
    IF chars = <<>> THEN <<>>
    ELSE (IF Head(chars) \in BfSymbols THEN <<SymbolOp(Head(chars))>> ELSE <<>>)
            \o SymbolSeq(Tail(chars))

\* C9 as stated: scanning and structuring the translation of any
\* conventional text gives the instruction tree of the text's symbols.
C9_Stated ==
    /\ pc = "parse" => opcodes = SymbolSeq(bf)
    /\ ParseDone =>
          LET r == parse(SymbolSeq(bf))
          IN  program = r.program /\ err = r.err /\ err_pos = r.pos

\* C11 as stated: a Write on a cell holding v appends exactly the one byte
\* v to the output and changes neither the tape nor DataPointer.
C11_Stated ==
    [][ (Executing("Write") /\ InBounds(data_pointer)) =>
          /\ output' = Append(output, At(tape, data_pointer))
          /\ UNCHANGED <<tape, data_pointer>> ]_vars

MoveLefts == Repeat(Instr("DecrementPointer"), DataPointerInit + 1)

\* C12 as stated: of DataPointerInit + 1 consecutive MoveLeft from the
\* initial state the first DataPointerInit succeed, the last one fails, the
\* pointer never wraps and no cell changes.
C12_Stated ==
    program = MoveLefts =>
        /\ pc # "done"
        /\ data_pointer <= DataPointerInit
        /\ tape = Repeat(0, TapeLen)
        /\ pc = "run" => data_pointer = DataPointerInit - Top.idx
        /\ pc = "panicked" => (Top.idx = DataPointerInit /\ data_pointer = 0)

(***************************************************************************)
(* The loop that counts a cell down: n Inc from the initial state leave    *)
(* the cell at n, then Loop([Dec]) runs with its passes counted.           *)
(***************************************************************************)
CountDown(n) == Repeat(Instr("Increment"), n) \o <<Loop(<<Instr("Decrement")>>)>>

InitLoopDec ==
    /\ pc = "run"
    /\ bf = <<>> /\ source = <<>> /\ opcodes = <<>>
    /\ program \in { CountDown(n) : n \in 0..U8Max }
    /\ err = "none" /\ err_pos = -1 /\ err_level = -1
    /\ stack = <<[instructions |-> program, idx |-> 0]>>
    /\ tape = Repeat(0, TapeLen)
    /\ data_pointer = DataPointerInit
    /\ input = <<>>
    /\ output = <<>>
    /\ passes = 0
    /\ overflow_checks = "unknown"

NextLoopDec ==
    \/ Increment
    \/ Decrement
    \/ LoopTest
    \/ ReturnCounted
    \/ Finish

SpecLoopDec == InitLoopDec /\ [][NextLoopDec]_vars

\* C13: from a cell holding n, Loop([Dec]) ends after exactly n passes
\* with the cell at 0, DataPointer and every other cell unchanged: at each
\* test the passes made and the cell add up to n, nothing fails, and at the
\* end n passes were made.
C13_CountDown ==
    LET n == Len(program) - 1
        cell == At(tape, DataPointerInit)
    IN  /\ pc # "panicked"
        /\ data_pointer = DataPointerInit
        /\ tape = [Repeat(0, TapeLen) EXCEPT ![DataPointerInit + 1] = cell]
        /\ passes <= n
        /\ (pc = "run" /\ Len(stack) = 1 /\ Top.idx = n) => passes + cell = n
        /\ pc = "done" => (passes = n /\ cell = 0)

\* the loop on a cell holding 5 has ended after 5 passes
C13_Witness ==
    /\ pc = "done"
    /\ program = CountDown(5)
    /\ passes = 5
    /\ At(tape, DataPointerInit) = 0

(***************************************************************************)
(* Structurer claims, continued                                            *)
(***************************************************************************)
\* C14: an UnterminatedLoop failure reports the index, in the top-level
\* sequence, of the earliest LoopBegin that has no matching LoopEnd.
C14_UnterminatedPosition ==
    (pc = "panicked" /\ err = "UnterminatedLoop") =>
        /\ UnmatchedBegins(opcodes) # {}
        /\ err_pos = Min(UnmatchedBegins(opcodes)) - 1

\* the open loop comes after a closed one and holds a nested LoopBegin
C14_Witness ==
    /\ pc = "panicked" /\ err = "UnterminatedLoop"
    /\ err_pos > 0
    /\ \E a \in 1..err_pos : opcodes[a] = "LoopEnd"
    /\ \E b \in (err_pos + 2)..Len(opcodes) : opcodes[b] = "LoopBegin"

\* C17: no recursive invocation of parse fails: every failure is raised
\* by the top-level pass and its position indexes the original sequence,
\* at the opcode the failure is about.
C17_TopLevelFailures ==
    pc = "panicked" =>
        /\ err_level = 0
        /\ err_pos \in 0..(Len(opcodes) - 1)
        /\ err = "UnmatchedLoopEnd" => At(opcodes, err_pos) = "LoopEnd"
        /\ err = "UnterminatedLoop" => At(opcodes, err_pos) = "LoopBegin"

\* the top-level pass failed after it had structured a nested loop
C17_Witness ==
    /\ pc = "panicked" /\ err_level = 0
    /\ err_pos >= 4
    /\ opcodes[1] = "LoopBegin" /\ opcodes[2] = "LoopBegin"
    /\ Depth(opcodes, err_pos) = 0

(***************************************************************************)
(* Evaluator claims, continued                                             *)
(***************************************************************************)
\* C15: inside a loop body the condition is not looked at after an inner
\* instruction: an instruction that does not fail is followed by the next
\* one of the same pass, whatever the cell holds; the condition is taken
\* only at the Loop instruction, on the cell DataPointer addresses then.
C15_TestBetweenPasses ==
    [][ /\ (pc = "run" /\ pc' = "run" /\ Len(stack) > 1
              /\ Top.idx < Len(Top.instructions) /\ Cur.tag # "Loop") =>
              stack' = [stack EXCEPT ![Len(stack)].idx = @ + 1]
        /\ (Executing("Loop") /\ pc' = "run") =>
              /\ InBounds(data_pointer)
              /\ (Len(stack') = Len(stack) + 1) <=> (At(tape, data_pointer) # 0)
              /\ (stack' = [stack EXCEPT ![Len(stack)].idx = @ + 1])
                     <=> (At(tape, data_pointer) = 0)
      ]_vars

\* in the middle of a pass the cell under the pointer is zero, and the
\* pointer is not where it was when the loop was entered
C15_Witness ==
    /\ pc = "run"
    /\ Len(stack) = 2
    /\ Top.idx = 1 /\ Len(Top.instructions) = 2
    /\ data_pointer # DataPointerInit
    /\ InBounds(data_pointer) /\ At(tape, data_pointer) = 0
    /\ At(tape, DataPointerInit) # 0

\* C16: DataPointer is changed only by the two moves; the tape only by
\* Inc, Dec and Read and only in the cell under the pointer; Write and the
\* loop test change neither; the tape keeps its length.
C16_Frame ==
    [][ /\ data_pointer' # data_pointer =>
              (Executing("IncrementPointer") \/ Executing("DecrementPointer"))
        /\ IF /\ Executing("Increment") \/ Executing("Decrement") \/ Executing("Read")
              /\ InBounds(data_pointer)
           THEN tape' = [tape EXCEPT ![data_pointer + 1] = At(tape', data_pointer)]
           ELSE tape' = tape
        /\ (Executing("Write") \/ Executing("Loop")) => UNCHANGED <<tape, data_pointer>>
        /\ Len(tape') = TapeLen
      ]_vars

\* a run that read, wrote and moved has ended
C16_Witness ==
    /\ pc = "done"
    /\ input = <<0>> /\ output # <<>>
    /\ data_pointer # DataPointerInit
    /\ tape # Repeat(0, TapeLen)
    /\ Len(tape) = TapeLen

(***************************************************************************)
(* Execute mode, whole: lex, parse, then run on a fresh tape               *)
(***************************************************************************)
\* source texts: up to MaxSrcToks pieces, each one of the eight tokens or
\* a character of comment
SrcPieces == { Token(n) : n \in 1..8 } \cup { <<"x">> }

MainSources == { Concat(ss) : ss \in SeqsUpTo(SrcPieces, MaxSrcToks) }

\* main, lines 160-164: the source is read, nothing has run
InitMain ==
    /\ pc = "lex"
    /\ bf = <<>>
    /\ source \in MainSources
    /\ opcodes = <<>>
    /\ NotParsed
    /\ stack = <<>> /\ tape = <<>> /\ data_pointer = 0
    /\ input \in StdinContents
    /\ output = <<>>
    /\ passes = 0
    /\ overflow_checks = "unknown"

\* main, lines 170-173: the tape, the pointer and the call of run
StartRun ==
    /\ pc = "run"
    /\ stack = <<>> /\ tape = <<>>
    /\ tape' = Repeat(0, TapeLen)
    /\ data_pointer' = DataPointerInit
    /\ stack' = <<[instructions |-> program, idx |-> 0]>>
    /\ UNCHANGED <<pc, bf, source, opcodes, program, input, output, err,
                   err_pos, err_level, passes, overflow_checks>>

NextMain ==
    \/ LexAct
    \/ ParseAct
    \/ StartRun
    \/ IncrementPointer
    \/ DecrementPointer
    \/ Increment
    \/ Decrement
    \/ Write
    \/ Read
    \/ LoopTest
    \/ Return
    \/ Finish

SpecMain == InitMain /\ [][NextMain]_vars

StructuralErrors == {"UnmatchedLoopEnd", "UnterminatedLoop"}

\* C18: the stages run in the order lex, parse, run; lex and parse write
\* no output and take no input; a source with a structural error ends in
\* the panic of parse, after which nothing at all executes.
C18_StagesInOrder ==
    [][ /\ pc = "lex" => pc' = "parse"
        /\ pc \in {"lex", "parse"} =>
              /\ input' = input /\ output' = output /\ output = <<>>
              /\ stack' = <<>> /\ tape' = <<>>
        /\ pc = "parse" =>
              IF Balanced(opcodes)
              THEN pc' = "run" /\ err' = "none"
              ELSE pc' = "panicked" /\ err' \in StructuralErrors
        /\ pc = "run" => err = "none"
        /\ ~(pc = "panicked" /\ err \in StructuralErrors)
      ]_vars

\* parse failed on a source whose first opcode is a Write or a Read, with
\* input waiting: nothing was written, nothing was read
C18_Witness ==
    /\ pc = "panicked" /\ err \in StructuralErrors
    /\ Len(opcodes) >= 2 /\ opcodes[1] \in {"Write", "Read"}
    /\ input = <<U8Max, 0>> /\ output = <<>>
    /\ stack = <<>> /\ tape = <<>>
====
